---- MODULE Spec2Model ----
(***************************************************************************)
(* A model of hash-runner 2.x: the HashRunner class (run, loadConfig,      *)
(* readHashFile, getHashedFiles, checkChangesInChunks, runCommand,         *)
(* writeHashFile, exitProcess) and the CLI entry point that calls run().   *)
(*                                                                         *)
(* One behaviour is one invocation of the CLI (or, with IS_TEST set, one   *)
(* call of run() from a test harness).  The environment the code reads --  *)
(* the hash file on disk, the tracked files and their contents, CI, the    *)
(* force option, IS_TEST -- is fixed in Init; what the environment answers *)
(* while the run is in progress (config found or not, glob failure, file   *)
(* read failure, the command's exit code, write failure) is chosen when    *)
(* the code asks.                                                          *)
(*                                                                         *)
(* The function-style entry point hashRunner() of hash-runner 1.1.0        *)
(* (src/index.ts) is the same run with three differences, selected by the  *)
(* variable legacy: readHashFile returns {} instead of null, run() has no  *)
(* force and key-count tests, and the chunk size is always the default.    *)
(*                                                                         *)
(* SpecTwice lets a second invocation follow a completed first one.        *)
(***************************************************************************)
EXTENDS Integers, Sequences, FiniteSets, TLC

\* ------------------------------------------------------------------ bounds

\* Number of files the include patterns can match.
MaxFiles == 2
\* Largest configured parallelizeComparisonsChunkSize.
MaxChunkSize == 2
\* Largest exit code of the executed command.
MaxExitCode == 2
\* Largest number of current keys handed to checkChangesInChunks (SpecDetector).
MaxKeys == 4
\* Magnitude of the most negative configured parallelizeComparisonsChunkSize (SpecAnyChunk).
MaxNonPositive == 1

\* ------------------------------------------------------- program constants

\* const COMPARISON_CHUNK_SIZE = 100
COMPARISON_CHUNK_SIZE == 100
\* process.exit(1) in the CLI's catch handler
CLI_FAILURE_CODE == 1

\* ------------------------------------------------------------- data model

\* Relative paths of the files the glob can match (file i is "file<i>.js").
Files == 1..MaxFiles
\* SHA-256 digests.  The code only ever compares two digests with !==, so two
\* distinct values stand for all of them.
Digests == {"H1", "H2"}
ExitCodes == 0..MaxExitCode

\* Record<string, string>: a mapping from a set of paths to digests.
Snapshots == UNION {[S -> Digests] : S \in SUBSET Files}
EmptyMap == [f \in {} |-> "H1"]

\* The hash file on disk: missing, not parsable as JSON, or a serialized mapping.
\* JSON.stringify followed by JSON.parse gives the mapping back, so the
\* content of a well-formed file is modelled by the mapping it serializes.
MissingStore == [kind |-> "missing", map |-> EmptyMap]
CorruptStore == [kind |-> "corrupt", map |-> EmptyMap]
MappingStore(m) == [kind |-> "mapping", map |-> m]
\* The file holds valid JSON that is no path-to-digest mapping: the array [].
ArrayStore == [kind |-> "array", map |-> EmptyMap]
Stores == {MissingStore, CorruptStore, ArrayStore} \cup {MappingStore(m) : m \in Snapshots}

\* The value of previousHashes: not read yet, null, or an object.
PendingHashes == [kind |-> "pending", map |-> EmptyMap]
NullHashes == [kind |-> "null", map |-> EmptyMap]
ObjHashes(m) == [kind |-> "obj", map |-> m]

\* The value the promise of run() resolved with.
PendingValue == [kind |-> "pending", val |-> 0]
UndefinedValue == [kind |-> "undefined", val |-> 0]
NumberValue(n) == [kind |-> "number", val |-> n]

\* config.parallelizeComparisonsChunkSize: <<>> is undefined, <<c>> is c.
ChunkConfigs == {<<>>} \cup {<<c>> : c \in 1..MaxChunkSize}
\* loadConfig returns result.config as it is: the field can hold any number.
\* The integers that are no chunk size are added to the positive ones.
AnyChunkConfigs == ChunkConfigs \cup {<<c>> : c \in (0 - MaxNonPositive)..0}

VARIABLES
    store,          \* the hash file on disk
    store0,         \* the hash file on disk when the run started
    tracked,        \* files matched by the glob, with the digest of their content
    force,          \* this.options.force
    ci,             \* const CI = process.env.CI === "true"
    isTest,         \* process.env.IS_TEST is set
    legacy,         \* the entry point is hashRunner() of src/index.ts, not HashRunner.run
    run,            \* number of this invocation: 1 or 2
    prev,           \* outcome of the previous invocation, "none" in the first
    filesChanged,   \* the tracked files changed since the previous invocation
    pc,             \* where run() is
    chunkCfg,       \* config.parallelizeComparisonsChunkSize
    previousHashes, \* result of readHashFile
    globbed,        \* glob() has resolved
    fileKeys,       \* Object.keys(fileHashes): insertion order
    fileHashes,     \* getHashedFiles' fileHashes
    detector,       \* checkChangesInChunks: "idle", "running", "done"
    tasks,          \* the checkChunk calls of checkChangesInChunks
    aborted,        \* abortController.signal.aborted
    decision,       \* "none", "changed", "unchanged"
    cmd,            \* the child process: "none", "running", "closed", "signalled", "errored"
    childCode,      \* the code of the child's close event: <<c>>, or <<>> for null
    code,           \* the value runCommand resolved with
    spawnCount,     \* calls of spawn
    readCount,      \* reads of the hash file
    writeCount,     \* writes of the hash file
    error,          \* why run() rejected: "none", "config", "glob", "read", "range", "spawn", "write"
    exitCode,       \* the code process.exit was called with (meaningful when pc = "Exited")
    returned        \* the value the promise of run() resolved with

envVars == <<store0, tracked, force, ci, isTest, legacy, run, prev, filesChanged>>
buildVars == <<previousHashes, globbed, fileKeys, fileHashes>>
detectVars == <<detector, tasks, aborted>>
cmdVars == <<cmd, childCode, code, spawnCount>>
vars == <<store, envVars, pc, chunkCfg, buildVars, detectVars, decision, cmdVars,
          readCount, writeCount, error, exitCode, returned>>

\* ---------------------------------------------------------------- helpers

Min(a, b) == IF a < b THEN a ELSE b

\* obj[key] of a JavaScript object: <<v>> when the key is present, <<>> for undefined.
Lookup(map, key) == IF key \in DOMAIN map THEN <<map[key]>> ELSE <<>>

\* Object.keys(obj).length
KeyCount(map) == Cardinality(DOMAIN map)

\* Mutant of ParseStore: the catch block returns {} instead of null.
ParseStoreEmptyObject(s, readable) ==
    IF readable /\ s.kind \in {"mapping", "array"}
    THEN ObjHashes(s.map)
    ELSE ObjHashes(EmptyMap)

\* JSON.parse(await fs.readFile(hashFilePath)) inside try/catch: a failed read
\* or a syntax error gives null.  Whatever JSON.parse returns is returned
\* unchecked: the array [] is a truthy object without keys.
ParseStore(s, readable) ==
    IF readable /\ s.kind \in {"mapping", "array"}
    THEN ObjHashes(s.map)
    ELSE NullHashes

\* readHashFile of src/index.ts: the catch block returns {}.
ParseStoreFn(s, readable) ==
    IF readable /\ s.kind \in {"mapping", "array"}
    THEN ObjHashes(s.map)
    ELSE ObjHashes(EmptyMap)

\* child.on("close", code => resolve(code ?? 0)): mutant with code ?? 1
CodeOrOne(raw) == IF raw = <<>> THEN 1 ELSE raw[1]

\* code ?? 0 for the code of the close event (<<>> is null)
CodeOrZero(raw) == IF raw = <<>> THEN 0 ELSE raw[1]

\* chunkSize: number = COMPARISON_CHUNK_SIZE (an undefined argument takes the default)
ChunkSizeParam(cfg) == IF cfg = <<>> THEN COMPARISON_CHUNK_SIZE ELSE cfg[1]

\* Mutant of NumCursors: Math.floor instead of Math.ceil.
NumCursorsFloor(n, chunkSize) == n \div chunkSize

\* Math.ceil(fileKeys.length / chunkSize), for chunkSize >= 1
NumCursors(n, chunkSize) == (n + chunkSize - 1) \div chunkSize

\* Math.ceil(fileKeys.length / chunkSize) for every integer chunkSize: n / 0 is
\* Infinity, 0 / 0 is NaN, and a negative chunkSize gives a number <= 0
NumCursorsAny(n, chunkSize) ==
    IF chunkSize >= 1 THEN [kind |-> "number", val |-> NumCursors(n, chunkSize)]
    ELSE IF chunkSize = 0
         THEN (IF n = 0 THEN [kind |-> "NaN", val |-> 0] ELSE [kind |-> "Infinity", val |-> 0])
         ELSE [kind |-> "number", val |-> 0 - (n \div (0 - chunkSize))]

\* Array.from({ length: numCursors }, ...): the length goes through ToLength,
\* which gives 0 for NaN and for negative numbers; for Infinity the array
\* cannot be created and Array.from throws a RangeError
ArrayFromLength(numCursors) ==
    IF numCursors.kind = "number" /\ numCursors.val > 0 THEN numCursors.val ELSE 0
ArrayFromThrows(numCursors) == numCursors.kind = "Infinity"

\* startIndex and endIndex of the chunk of a cursor (cursors and indices count from 0)
\* Mutant of StartIndex: every chunk but the first starts one key early.
StartIndexOverlapping(cursor, chunkSize) ==
    IF cursor = 0 THEN 0 ELSE cursor * chunkSize - 1

StartIndex(cursor, chunkSize) == cursor * chunkSize
EndIndex(cursor, chunkSize, n) == Min(StartIndex(cursor, chunkSize) + chunkSize, n)

\* The promises array: one checkChunk call per cursor, each about to test
\* signal.aborted for its first key.  tasks[k] is the call of cursor k-1; exit
\* tells how the call returned: "aborted" (the return on signal.aborted),
\* "found" (abort() and break), "end" (the loop ran to endIndex).
MakeTasks(n, chunkSize) ==
    [k \in 1..ArrayFromLength(NumCursorsAny(n, chunkSize)) |->
        [start |-> StartIndex(k - 1, chunkSize),
         end   |-> EndIndex(k - 1, chunkSize, n),
         i     |-> StartIndex(k - 1, chunkSize),
         st    |-> "check",
         exit  |-> "none"]]

\* Mutant of HashMismatch: a key without previous hash is not a mismatch.
HashMismatchStoredOnly(current, previous, file) ==
    /\ file \in DOMAIN previous
    /\ Lookup(current, file) # Lookup(previous, file)

\* Mutant of HashMismatch: === instead of !==.
HashMismatchInverted(current, previous, file) ==
    Lookup(current, file) = Lookup(previous, file)

\* currentHashes[file] !== previousHashes[file]
HashMismatch(current, previous, file) == Lookup(current, file) # Lookup(previous, file)

\* Mutant of ShortCircuit: run() always calls checkChangesInChunks.
ShortCircuitNever == FALSE

\* Mutant of ShortCircuit: the comparison of the key counts is missing.
ShortCircuitNoLength ==
    \/ force
    \/ previousHashes.kind = "null"

\* Mutant of ShortCircuit: this.options.force is not consulted.
ShortCircuitNoForce ==
    \/ previousHashes.kind = "null"
    \/ KeyCount(fileHashes) # KeyCount(previousHashes.map)

\* The first three operands of the || chain in run(): force, no previous
\* hashes, or a different number of keys.
ShortCircuit ==
    \/ force
    \/ previousHashes.kind = "null"
    \/ KeyCount(fileHashes) # KeyCount(previousHashes.map)

\* ---------------------------------------------------------------- initial

\* the state before the entry point is called, whichever entry point it is
InitRun ==
    /\ store \in Stores
    /\ store0 = store
    /\ tracked \in Snapshots
    /\ force \in BOOLEAN
    /\ ci \in BOOLEAN
    /\ isTest \in BOOLEAN
    /\ run = 1
    /\ prev = "none"
    /\ filesChanged = FALSE
    /\ pc = "Init"
    /\ chunkCfg = <<>>
    /\ previousHashes = PendingHashes
    /\ globbed = FALSE
    /\ fileKeys = <<>>
    /\ fileHashes = EmptyMap
    /\ detector = "idle"
    /\ tasks = <<>>
    /\ aborted = FALSE
    /\ decision = "none"
    /\ cmd = "none"
    /\ childCode = <<>>
    /\ code = 0
    /\ spawnCount = 0
    /\ readCount = 0
    /\ writeCount = 0
    /\ error = "none"
    /\ exitCode = 0
    /\ returned = PendingValue

\* new HashRunner(configPath, options)
Init == InitRun /\ legacy = FALSE

\* ------------------------------------------------------- effects of calls

\* Mutant of SpawnCommand: runCommand resolves once the child is spawned,
\* without waiting for its close event.
SpawnCommandDetached ==
    /\ spawnCount' = spawnCount + 1
    /\ cmd' = "running"
    /\ childCode' = <<>>
    /\ code' = code
    /\ pc' = "Writing"

\* runCommand up to its await: spawn(command, {cwd, shell: true, stdio: "inherit"})
SpawnCommand ==
    /\ spawnCount' = spawnCount + 1
    /\ cmd' = "running"
    /\ childCode' = <<>>
    /\ code' = code
    /\ pc' = "Running"

\* Mutant of ExitProcess: process.exit() without the code.
ExitProcessZero(c) ==
    IF isTest
    THEN /\ pc' = "Resolved"
         /\ exitCode' = exitCode
         /\ returned' = UndefinedValue
    ELSE /\ pc' = "Exited"
         /\ exitCode' = 0
         /\ returned' = returned

\* Mutant of ExitProcess: with IS_TEST set the code is handed back and run()
\* returns it.
ExitProcessReturnsCode(c) ==
    IF isTest
    THEN /\ pc' = "Resolved"
         /\ exitCode' = exitCode
         /\ returned' = NumberValue(c)
    ELSE /\ pc' = "Exited"
         /\ exitCode' = c
         /\ returned' = returned

\* exitProcess(c) followed by the return of run(): with IS_TEST set exitProcess
\* returns and the promise of run() resolves with undefined, else process.exit(c)
ExitProcess(c) ==
    IF isTest
    THEN /\ pc' = "Resolved"
         /\ exitCode' = exitCode
         /\ returned' = UndefinedValue
    ELSE /\ pc' = "Exited"
         /\ exitCode' = c
         /\ returned' = returned

\* a throw inside run(): the promise run() returned rejects
Reject(kind) ==
    /\ pc' = "Rejected"
    /\ error' = kind

\* ---------------------------------------------------------------- actions

\* Mutant of LoadConfigFail: the hash file is read before the config is tested.
LoadConfigFailAfterRead ==
    /\ pc = "Init"
    /\ readCount' = readCount + 1
    /\ Reject("config")
    /\ UNCHANGED <<store, envVars, chunkCfg, buildVars, detectVars, decision, cmdVars,
                   writeCount, exitCode, returned>>

\* loadConfig: the loader resolved nothing or an empty config
LoadConfigFail ==
    /\ pc = "Init"
    /\ Reject("config")
    /\ UNCHANGED <<store, envVars, chunkCfg, buildVars, detectVars, decision, cmdVars,
                   readCount, writeCount, exitCode, returned>>

\* Mutant of LoadConfigOk: the CI test is missing.
LoadConfigOkNoBypass ==
    /\ pc = "Init"
    /\ \E c \in (IF legacy THEN {<<>>} ELSE ChunkConfigs) : chunkCfg' = c
    /\ pc' = "Building"
    /\ UNCHANGED <<store, envVars, buildVars, detectVars, decision, cmdVars,
                   readCount, writeCount, error, exitCode, returned>>

\* loadConfig resolved; run() continues to the CI test and, without CI, starts
\* readHashFile and getHashedFiles
LoadConfigOk ==
    /\ pc = "Init"
    /\ \E c \in (IF legacy THEN {<<>>} ELSE ChunkConfigs) : chunkCfg' = c
    /\ IF ci THEN SpawnCommand ELSE pc' = "Building" /\ UNCHANGED cmdVars
    /\ UNCHANGED <<store, envVars, buildVars, detectVars, decision,
                   readCount, writeCount, error, exitCode, returned>>

\* readHashFile settles (it never rejects)
ReadHashFile ==
    /\ pc = "Building"
    /\ previousHashes.kind = "pending"
    /\ \E readable \in BOOLEAN :
          previousHashes' = IF legacy
                            THEN ParseStoreFn(store, readable)
                            ELSE ParseStore(store, readable)
    /\ readCount' = readCount + 1
    /\ UNCHANGED <<store, envVars, pc, chunkCfg, globbed, fileKeys, fileHashes, detectVars,
                   decision, cmdVars, writeCount, error, exitCode, returned>>

\* getHashedFiles: glob resolves with the included files and one
\* computeFileHash is started per file
GlobOk ==
    /\ pc = "Building"
    /\ ~globbed
    /\ globbed' = TRUE
    /\ UNCHANGED <<store, envVars, pc, chunkCfg, previousHashes, fileKeys, fileHashes,
                   detectVars, decision, cmdVars, readCount, writeCount, error, exitCode, returned>>

\* getHashedFiles: glob rejects
GlobFail ==
    /\ pc = "Building"
    /\ ~globbed
    /\ Reject("glob")
    /\ UNCHANGED <<store, envVars, chunkCfg, buildVars, detectVars, decision, cmdVars,
                   readCount, writeCount, exitCode, returned>>

\* fileHashes[relativePath] = await this.computeFileHash(file)
HashFileOk(f) ==
    /\ pc = "Building"
    /\ globbed
    /\ f \in DOMAIN tracked \ DOMAIN fileHashes
    /\ fileKeys' = Append(fileKeys, f)
    /\ fileHashes' = [g \in DOMAIN fileHashes \cup {f} |->
                        IF g = f THEN tracked[f] ELSE fileHashes[g]]
    /\ UNCHANGED <<store, envVars, pc, chunkCfg, previousHashes, globbed, detectVars,
                   decision, cmdVars, readCount, writeCount, error, exitCode, returned>>

\* Mutant of HashFileFail: the failed read is caught inside the map callback
\* and the file is entered with the digest of no content.
HashFileFailCaught(f) ==
    /\ pc = "Building"
    /\ globbed
    /\ f \in DOMAIN tracked \ DOMAIN fileHashes
    /\ error' = "read"
    /\ fileKeys' = Append(fileKeys, f)
    /\ fileHashes' = [g \in DOMAIN fileHashes \cup {f} |->
                        IF g = f THEN "H1" ELSE fileHashes[g]]
    /\ UNCHANGED <<store, envVars, pc, chunkCfg, previousHashes, globbed, detectVars,
                   decision, cmdVars, readCount, writeCount, exitCode, returned>>

\* computeFileHash: fs.readFile rejects, so Promise.all and run() reject
HashFileFail(f) ==
    /\ pc = "Building"
    /\ globbed
    /\ f \in DOMAIN tracked \ DOMAIN fileHashes
    /\ Reject("read")
    /\ UNCHANGED <<store, envVars, chunkCfg, buildVars, detectVars, decision, cmdVars,
                   readCount, writeCount, exitCode, returned>>

\* Mutant of Decide: the || chain does not wait for the computeFileHash calls.
DecideBeforeSnapshot ==
    /\ pc = "Building"
    /\ previousHashes.kind # "pending"
    /\ globbed
    /\ IF ~legacy /\ ShortCircuit
       THEN /\ decision' = "changed"
            /\ SpawnCommand
            /\ UNCHANGED detectVars
            /\ error' = error
       ELSE IF ArrayFromThrows(NumCursorsAny(Len(fileKeys), ChunkSizeParam(chunkCfg)))
       THEN /\ Reject("range")
            /\ UNCHANGED <<detectVars, decision, cmdVars>>
       ELSE /\ detector' = "running"
            /\ tasks' = MakeTasks(Len(fileKeys), ChunkSizeParam(chunkCfg))
            /\ aborted' = FALSE
            /\ pc' = "Detecting"
            /\ error' = error
            /\ UNCHANGED <<decision, cmdVars>>
    /\ UNCHANGED <<store, envVars, chunkCfg, buildVars, readCount, writeCount, exitCode, returned>>

\* Promise.all([readHashFile, getHashedFiles]) resolved: the || chain of run()
\* up to its first await (runCommand, or checkChangesInChunks' Promise.all)
Decide ==
    /\ pc = "Building"
    /\ previousHashes.kind # "pending"
    /\ globbed
    /\ DOMAIN fileHashes = DOMAIN tracked
    /\ IF ~legacy /\ ShortCircuit
       THEN /\ decision' = "changed"
            /\ SpawnCommand
            /\ UNCHANGED detectVars
            /\ error' = error
       ELSE IF ArrayFromThrows(NumCursorsAny(Len(fileKeys), ChunkSizeParam(chunkCfg)))
       THEN /\ Reject("range")
            /\ UNCHANGED <<detectVars, decision, cmdVars>>
       ELSE /\ detector' = "running"
            /\ tasks' = MakeTasks(Len(fileKeys), ChunkSizeParam(chunkCfg))
            /\ aborted' = FALSE
            /\ pc' = "Detecting"
            /\ error' = error
            /\ UNCHANGED <<decision, cmdVars>>
    /\ UNCHANGED <<store, envVars, chunkCfg, buildVars, readCount, writeCount, exitCode, returned>>

\* The checkChunk calls are the concurrent comparison tasks.  Each loop iteration
\* is two steps, the test of signal.aborted and the comparison of one key, and
\* the steps of different tasks interleave in every order.  (checkChunk holds no
\* await, so a JavaScript engine runs the calls one after the other in cursor
\* order: that schedule is one of the interleavings.)

\* Mutant of CheckAborted: the test of signal.aborted is missing.
CheckAbortedIgnored(k) ==
    /\ pc = "Detecting"
    /\ k \in DOMAIN tasks
    /\ tasks[k].st = "check"
    /\ tasks' = [tasks EXCEPT ![k].st = "compare"]
    /\ UNCHANGED <<store, envVars, pc, chunkCfg, buildVars, detector, aborted, decision,
                   cmdVars, readCount, writeCount, error, exitCode, returned>>

\* checkChunk: if (signal.aborted) return
CheckAborted(k) ==
    /\ pc = "Detecting"
    /\ k \in DOMAIN tasks
    /\ tasks[k].st = "check"
    /\ tasks' = [tasks EXCEPT ![k].st = IF aborted THEN "done" ELSE "compare",
                              ![k].exit = IF aborted THEN "aborted" ELSE "none"]
    /\ UNCHANGED <<store, envVars, pc, chunkCfg, buildVars, detector, aborted, decision,
                   cmdVars, readCount, writeCount, error, exitCode, returned>>

\* Mutant of CompareKey: abort() is called on a mismatch but the loop goes on.
CompareKeyNoReturn(k) ==
    /\ pc = "Detecting"
    /\ k \in DOMAIN tasks
    /\ tasks[k].st = "compare"
    /\ LET t == tasks[k]
           file == fileKeys[t.i + 1]
       IN /\ aborted' = (aborted \/ HashMismatch(fileHashes, previousHashes.map, file))
          /\ tasks' = [tasks EXCEPT ![k].i = t.i + 1,
                                    ![k].st = IF t.i + 1 < t.end THEN "check" ELSE "done",
                                    ![k].exit = IF t.i + 1 < t.end THEN "none" ELSE "end"]
    /\ UNCHANGED <<store, envVars, pc, chunkCfg, buildVars, detector, decision,
                   cmdVars, readCount, writeCount, error, exitCode, returned>>

\* Mutant of CompareKey: a mismatch found when the signal is already aborted
\* installs a fresh, unaborted signal.
CompareKeyResetSignal(k) ==
    /\ pc = "Detecting"
    /\ k \in DOMAIN tasks
    /\ tasks[k].st = "compare"
    /\ LET t == tasks[k]
           file == fileKeys[t.i + 1]
       IN IF HashMismatch(fileHashes, previousHashes.map, file)
          THEN /\ aborted' = ~aborted
               /\ tasks' = [tasks EXCEPT ![k].st = "done", ![k].exit = "found"]
          ELSE /\ aborted' = aborted
               /\ tasks' = [tasks EXCEPT ![k].i = t.i + 1,
                                         ![k].st = IF t.i + 1 < t.end THEN "check" ELSE "done",
                                         ![k].exit = IF t.i + 1 < t.end THEN "none" ELSE "end"]
    /\ UNCHANGED <<store, envVars, pc, chunkCfg, buildVars, detector, decision,
                   cmdVars, readCount, writeCount, error, exitCode, returned>>

\* Mutant of CompareKey: a mismatch is repaired in previousHashes before abort().
CompareKeyUpdatesBaseline(k) ==
    /\ pc = "Detecting"
    /\ k \in DOMAIN tasks
    /\ tasks[k].st = "compare"
    /\ LET t == tasks[k]
           file == fileKeys[t.i + 1]
       IN IF HashMismatch(fileHashes, previousHashes.map, file)
          THEN /\ aborted' = TRUE
               /\ tasks' = [tasks EXCEPT ![k].st = "done", ![k].exit = "found"]
               /\ previousHashes' =
                     ObjHashes([f \in DOMAIN previousHashes.map \cup {file} |->
                                  IF f = file THEN fileHashes[file]
                                  ELSE previousHashes.map[f]])
          ELSE /\ aborted' = aborted
               /\ tasks' = [tasks EXCEPT ![k].i = t.i + 1,
                                         ![k].st = IF t.i + 1 < t.end THEN "check" ELSE "done",
                                         ![k].exit = IF t.i + 1 < t.end THEN "none" ELSE "end"]
               /\ previousHashes' = previousHashes
    /\ UNCHANGED <<store, envVars, pc, chunkCfg, globbed, fileKeys, fileHashes, detector,
                   decision, cmdVars, readCount, writeCount, error, exitCode, returned>>

\* Mutant of CompareKey: the loop has no i++.
CompareKeyNoIncrement(k) ==
    /\ pc = "Detecting"
    /\ k \in DOMAIN tasks
    /\ tasks[k].st = "compare"
    /\ LET t == tasks[k]
           file == fileKeys[t.i + 1]
       IN IF HashMismatch(fileHashes, previousHashes.map, file)
          THEN /\ aborted' = TRUE
               /\ tasks' = [tasks EXCEPT ![k].st = "done", ![k].exit = "found"]
          ELSE /\ aborted' = aborted
               /\ tasks' = [tasks EXCEPT ![k].st = "check"]
    /\ UNCHANGED <<store, envVars, pc, chunkCfg, buildVars, detector, decision,
                   cmdVars, readCount, writeCount, error, exitCode, returned>>

\* checkChunk: compare the hashes of fileKeys[i]; abort and return on a
\* mismatch, else i++ and leave the loop when i reaches endIndex
CompareKey(k) ==
    /\ pc = "Detecting"
    /\ k \in DOMAIN tasks
    /\ tasks[k].st = "compare"
    /\ LET t == tasks[k]
           file == fileKeys[t.i + 1]
       IN IF HashMismatch(fileHashes, previousHashes.map, file)
          THEN /\ aborted' = TRUE
               /\ tasks' = [tasks EXCEPT ![k].st = "done", ![k].exit = "found"]
          ELSE /\ aborted' = aborted
               /\ tasks' = [tasks EXCEPT ![k].i = t.i + 1,
                                         ![k].st = IF t.i + 1 < t.end THEN "check" ELSE "done",
                                         ![k].exit = IF t.i + 1 < t.end THEN "none" ELSE "end"]
    /\ UNCHANGED <<store, envVars, pc, chunkCfg, buildVars, detector, decision,
                   cmdVars, readCount, writeCount, error, exitCode, returned>>

\* Mutant of DetectorJoin: checkChangesInChunks returns as soon as the signal
\* is aborted, without awaiting the other checkChunk calls.
DetectorJoinOnAbort ==
    /\ pc = "Detecting"
    /\ aborted \/ \A k \in DOMAIN tasks : tasks[k].st = "done"
    /\ detector' = "done"
    /\ IF aborted
       THEN /\ decision' = "changed"
            /\ SpawnCommand
            /\ returned' = returned
       ELSE /\ decision' = "unchanged"
            /\ pc' = "Resolved"
            /\ returned' = UndefinedValue
            /\ UNCHANGED cmdVars
    /\ UNCHANGED <<store, envVars, chunkCfg, buildVars, tasks, aborted,
                   readCount, writeCount, error, exitCode>>

\* Mutant of DetectorJoin: Promise.race instead of Promise.all.
DetectorJoinRace ==
    /\ pc = "Detecting"
    /\ \/ tasks = <<>>
       \/ \E k \in DOMAIN tasks : tasks[k].st = "done"
    /\ detector' = "done"
    /\ IF aborted
       THEN /\ decision' = "changed"
            /\ SpawnCommand
            /\ returned' = returned
       ELSE /\ decision' = "unchanged"
            /\ pc' = "Resolved"
            /\ returned' = UndefinedValue
            /\ UNCHANGED cmdVars
    /\ UNCHANGED <<store, envVars, chunkCfg, buildVars, tasks, aborted,
                   readCount, writeCount, error, exitCode>>

\* Mutant of DetectorJoin: the result of checkChangesInChunks is ignored and
\* the command runs.
DetectorJoinFallThrough ==
    /\ pc = "Detecting"
    /\ \A k \in DOMAIN tasks : tasks[k].st = "done"
    /\ detector' = "done"
    /\ decision' = IF aborted THEN "changed" ELSE "unchanged"
    /\ SpawnCommand
    /\ UNCHANGED <<store, envVars, chunkCfg, buildVars, tasks, aborted,
                   readCount, writeCount, error, exitCode, returned>>

\* await Promise.all(promises) resolved; return abortController.signal.aborted,
\* and run() either runs the command or logs "No changes detected" and returns
DetectorJoin ==
    /\ pc = "Detecting"
    /\ \A k \in DOMAIN tasks : tasks[k].st = "done"
    /\ detector' = "done"
    /\ IF aborted
       THEN /\ decision' = "changed"
            /\ SpawnCommand
            /\ returned' = returned
       ELSE /\ decision' = "unchanged"
            /\ pc' = "Resolved"
            /\ returned' = UndefinedValue
            /\ UNCHANGED cmdVars
    /\ UNCHANGED <<store, envVars, chunkCfg, buildVars, tasks, aborted,
                   readCount, writeCount, error, exitCode>>

\* Mutant of AfterCommand: the hash file is written only when the command succeeded.
AfterCommandSkipOnFailure(c) ==
    IF ci \/ c # 0
    THEN ExitProcess(c)
    ELSE /\ pc' = "Writing"
         /\ exitCode' = exitCode
         /\ returned' = returned

\* Mutant of AfterCommand: exitProcess(code) is called before writeHashFile.
AfterCommandExitFirst(c) == ExitProcess(c)

\* after the command: exitProcess(code) in CI mode, else writeHashFile is started
AfterCommand(c) ==
    IF ci
    THEN ExitProcess(c)
    ELSE /\ pc' = "Writing"
         /\ exitCode' = exitCode
         /\ returned' = returned

\* child.on("close", code => resolve(code ?? 0)) with a number
CommandClose(c) ==
    /\ pc = "Running"
    /\ cmd' = "closed"
    /\ childCode' = <<c>>
    /\ code' = CodeOrZero(<<c>>)
    /\ spawnCount' = spawnCount
    /\ AfterCommand(CodeOrZero(<<c>>))
    /\ UNCHANGED <<store, envVars, chunkCfg, buildVars, detectVars, decision,
                   readCount, writeCount, error>>

\* child.on("close") with code null: the child was killed by a signal
CommandSignal ==
    /\ pc = "Running"
    /\ cmd' = "signalled"
    /\ childCode' = <<>>
    /\ code' = CodeOrZero(<<>>)
    /\ spawnCount' = spawnCount
    /\ AfterCommand(CodeOrZero(<<>>))
    /\ UNCHANGED <<store, envVars, chunkCfg, buildVars, detectVars, decision,
                   readCount, writeCount, error>>

\* Mutant of SpawnError: the error handler resolves with 1 instead of rejecting.
SpawnErrorSwallowed ==
    /\ pc = "Running"
    /\ cmd' = "errored"
    /\ code' = 1
    /\ AfterCommand(1)
    /\ UNCHANGED <<store, envVars, chunkCfg, buildVars, detectVars, decision, childCode,
                   spawnCount, readCount, writeCount, error>>

\* child.on("error", reject): the command could not be spawned
SpawnError ==
    /\ pc = "Running"
    /\ cmd' = "errored"
    /\ Reject("spawn")
    /\ UNCHANGED <<store, envVars, chunkCfg, buildVars, detectVars, decision, childCode,
                   code, spawnCount, readCount, writeCount, exitCode, returned>>

\* Mutant of WriteHashFileOk: the baseline that was read is written back
\* instead of the current hashes.
WriteHashFileOkPrevious ==
    /\ pc = "Writing"
    /\ store' = MappingStore(previousHashes.map)
    /\ writeCount' = writeCount + 1
    /\ ExitProcess(code)
    /\ UNCHANGED <<envVars, chunkCfg, buildVars, detectVars, decision, cmdVars,
                   readCount, error>>

\* writeHashFile resolved, then exitProcess(code)
WriteHashFileOk ==
    /\ pc = "Writing"
    /\ store' = MappingStore(fileHashes)
    /\ writeCount' = writeCount + 1
    /\ ExitProcess(code)
    /\ UNCHANGED <<envVars, chunkCfg, buildVars, detectVars, decision, cmdVars,
                   readCount, error>>

\* Mutant of WriteHashFileFail: a rejected write is tried once more.
WriteHashFileFailRetry ==
    /\ pc = "Writing"
    /\ store' \in {store, CorruptStore}
    /\ writeCount' = writeCount + 1
    /\ IF writeCount = 0
       THEN UNCHANGED <<pc, error>>
       ELSE Reject("write")
    /\ UNCHANGED <<envVars, chunkCfg, buildVars, detectVars, decision, cmdVars,
                   readCount, exitCode, returned>>

\* fs.writeFile rejects: the file is left as it was or truncated
WriteHashFileFail ==
    /\ pc = "Writing"
    /\ store' \in {store, CorruptStore}
    /\ writeCount' = writeCount + 1
    /\ Reject("write")
    /\ UNCHANGED <<envVars, chunkCfg, buildVars, detectVars, decision, cmdVars,
                   readCount, exitCode, returned>>

\* Mutant of CliCatch: the handler exits with the command's exit code.
CliCatchForwardsCode ==
    /\ pc = "Rejected"
    /\ ~isTest
    /\ pc' = "Exited"
    /\ exitCode' = code
    /\ returned' = returned
    /\ UNCHANGED <<store, envVars, chunkCfg, buildVars, detectVars, decision, cmdVars,
                   readCount, writeCount, error>>

\* CLI: hashRunner.run().catch(error => { console.error(...); process.exit(1) })
CliCatch ==
    /\ pc = "Rejected"
    /\ ~isTest
    /\ pc' = "Exited"
    /\ exitCode' = CLI_FAILURE_CODE
    /\ returned' = returned
    /\ UNCHANGED <<store, envVars, chunkCfg, buildVars, detectVars, decision, cmdVars,
                   readCount, writeCount, error>>

\* CLI: run() resolved without process.exit; node ends with exit code 0
ProcessEnd ==
    /\ pc = "Resolved"
    /\ ~isTest
    /\ pc' = "Exited"
    /\ exitCode' = 0
    /\ returned' = returned
    /\ UNCHANGED <<store, envVars, chunkCfg, buildVars, detectVars, decision, cmdVars,
                   readCount, writeCount, error>>

Next ==
    \/ LoadConfigFail
    \/ LoadConfigOk
    \/ ReadHashFile
    \/ GlobOk
    \/ GlobFail
    \/ \E f \in Files : HashFileOk(f)
    \/ \E f \in Files : HashFileFail(f)
    \/ Decide
    \/ \E k \in 1..MaxFiles : CheckAborted(k)
    \/ \E k \in 1..MaxFiles : CompareKey(k)
    \/ DetectorJoin
    \/ \E c \in ExitCodes : CommandClose(c)
    \/ CommandSignal
    \/ SpawnError
    \/ WriteHashFileOk
    \/ WriteHashFileFail
    \/ CliCatch
    \/ ProcessEnd

Spec == Init /\ [][Next]_vars

\* The steps of a run that node takes by itself: settled promises are
\* continued, file-system calls complete, the CLI's handlers run.  The close
\* and error events of the child are not among them: when the command ends is
\* up to the command.
RunStep ==
    \/ LoadConfigFail
    \/ LoadConfigOk
    \/ ReadHashFile
    \/ GlobOk
    \/ GlobFail
    \/ \E f \in Files : HashFileOk(f)
    \/ \E f \in Files : HashFileFail(f)
    \/ Decide
    \/ \E k \in 1..MaxFiles : CheckAborted(k)
    \/ \E k \in 1..MaxFiles : CompareKey(k)
    \/ DetectorJoin
    \/ WriteHashFileOk
    \/ WriteHashFileFail
    \/ CliCatch
    \/ ProcessEnd

\* The code only tests a current hash for equality with the stored hash of the
\* same path, so here every tracked file has the hash "H1" and the hash file
\* ranges over equal, different, missing and unreadable contents.
UniformSnapshots == {[f \in S |-> "H1"] : S \in SUBSET Files}
InitFair == Init /\ tracked \in UniformSnapshots

\* a run whose own steps are scheduled fairly, with a command that may never end
SpecFair == InitFair /\ [][Next]_vars /\ WF_vars(RunStep)

\* ---------------------------------------------- function-style entry point

\* hashRunner(configPath) of src/index.ts: there is no force option
InitFn == InitRun /\ legacy = TRUE /\ ~force

\* hashRunner() takes the steps of HashRunner.run; checkChangesInChunks is
\* called without a chunk size, so up to COMPARISON_CHUNK_SIZE files are
\* compared by a single checkChunk.
SpecFn == InitFn /\ [][Next]_vars

\* ------------------------------------------------------ the detector alone

\* Object.keys(currentHashes) for n hashed files: the files are named by their
\* place in insertion order
KeySeq(n) == [i \in 1..n |-> i]

\* The current hashes handed to the || chain of run(): up to MaxKeys files.
\* The detector only tests a current hash for equality with the previous hash
\* of the same key, so every current hash is "H1" and the previous hashes
\* range over equal, different and missing.
CurrentSnapshots == {[i \in 1..n |-> "H1"] : n \in 0..MaxKeys}

\* what readHashFile resolved with: null, or a mapping over any of the file
\* names (files that are still there, files that were removed or renamed)
Baselines ==
    {NullHashes} \cup {ObjHashes(m) : m \in UNION {[S -> Digests] : S \in SUBSET (1..MaxKeys)}}

\* run() at the || chain: loadConfig resolved outside CI, and Promise.all of
\* readHashFile and getHashedFiles resolved with a baseline and current hashes
InitChain(configs) ==
    /\ previousHashes \in Baselines
    /\ store = IF previousHashes.kind = "null"
               THEN MissingStore
               ELSE MappingStore(previousHashes.map)
    /\ store0 = store
    /\ tracked \in CurrentSnapshots
    /\ fileHashes = tracked
    /\ fileKeys = KeySeq(KeyCount(tracked))
    /\ force \in BOOLEAN
    /\ chunkCfg \in configs
    /\ ci = FALSE
    /\ isTest = FALSE
    /\ legacy = FALSE
    /\ run = 1
    /\ prev = "none"
    /\ filesChanged = FALSE
    /\ pc = "Building"
    /\ globbed = TRUE
    /\ detector = "idle"
    /\ tasks = <<>>
    /\ aborted = FALSE
    /\ decision = "none"
    /\ cmd = "none"
    /\ childCode = <<>>
    /\ code = 0
    /\ spawnCount = 0
    /\ readCount = 1
    /\ writeCount = 0
    /\ error = "none"
    /\ exitCode = 0
    /\ returned = PendingValue

\* the config holds a positive chunk size or none
InitDetector == InitChain(ChunkConfigs)

\* the || chain of run() and checkChangesInChunks, up to the start of the
\* command or the return of run()
NextDetector ==
    \/ Decide
    \/ \E k \in 1..MaxKeys : CheckAborted(k)
    \/ \E k \in 1..MaxKeys : CompareKey(k)
    \/ DetectorJoin

SpecDetector == InitDetector /\ [][NextDetector]_vars

\* Scheduling of the detector.  The checkChunk calls are plain synchronous
\* calls made by Array.from, and what follows Promise.all is a microtask: the
\* engine runs each of them to its end, so no call that can take a step waits
\* for ever.
DetectorFairness ==
    /\ WF_vars(Decide)
    /\ \A k \in 1..MaxKeys : WF_vars(CheckAborted(k) \/ CompareKey(k))
    /\ WF_vars(DetectorJoin)

SpecDetectorFair == InitDetector /\ [][NextDetector]_vars /\ DetectorFairness

\* The same chain for every integer the config can hold as chunk size, and the
\* CLI's catch handler for the run that rejects.
InitAnyChunk == InitChain(AnyChunkConfigs)
NextAnyChunk == NextDetector \/ CliCatch
SpecAnyChunk == InitAnyChunk /\ [][NextAnyChunk]_vars

\* ------------------------------------------------------- two invocations

\* how the invocation that just ended came out: no command ("skipped"), the
\* command exited 0 ("ok"), the command exited with another code ("failed")
Outcome ==
    IF decision = "unchanged" THEN "skipped"
    ELSE IF code = 0 THEN "ok" ELSE "failed"

\* The CLI is invoked again after an invocation that ended without a fatal
\* error.  The hash file is what the first invocation left; the tracked files
\* and the force flag of the second invocation are chosen freely, and
\* filesChanged records whether the tracked files differ from the first one's.
NextRun ==
    /\ run = 1
    /\ pc = "Exited"
    /\ error = "none"
    /\ run' = 2
    /\ prev' = Outcome
    /\ store0' = store
    /\ \E t \in Snapshots :
          /\ tracked' = t
          /\ filesChanged' = (t # tracked)
    /\ force' \in BOOLEAN
    /\ pc' = "Init"
    /\ chunkCfg' = <<>>
    /\ previousHashes' = PendingHashes
    /\ globbed' = FALSE
    /\ fileKeys' = <<>>
    /\ fileHashes' = EmptyMap
    /\ detector' = "idle"
    /\ tasks' = <<>>
    /\ aborted' = FALSE
    /\ decision' = "none"
    /\ cmd' = "none"
    /\ childCode' = <<>>
    /\ code' = 0
    /\ spawnCount' = 0
    /\ readCount' = 0
    /\ writeCount' = 0
    /\ exitCode' = 0
    /\ returned' = PendingValue
    /\ UNCHANGED <<store, ci, isTest, legacy, error>>

\* the CLI outside CI, IS_TEST unset.  The files of the first invocation all
\* have the hash "H1" (hashes are only tested for equality); the hash file it
\* finds and the files of the second invocation range over every value.
InitTwice == InitFair /\ ~ci /\ ~isTest

NextTwice == Next \/ NextRun

SpecTwice == InitTwice /\ [][NextTwice]_vars

\* ------------------------------------------------------------ properties

\* run() came to its end without a fatal error: the promise resolved (skipped
\* branch, or IS_TEST set) or process.exit was called with the command's code
RunCompleted == pc \in {"Exited", "Resolved"} /\ error = "none"

\* the child process terminated (with an exit code or by a signal)
CommandTerminated == cmd \in {"closed", "signalled"}

\* both promises of run()'s Promise.all have resolved
SnapshotBuilt ==
    /\ previousHashes.kind # "pending"
    /\ globbed
    /\ DOMAIN fileHashes = DOMAIN tracked

\* C1: without force and with a baseline present, a current snapshot equal
\* to the baseline (same keys, same digest for every key) is never reported
\* changed: no chunk task aborts, and once the detector has joined the
\* decision is "unchanged", for every chunk size and every interleaving.
C1_EqualSnapshotsUnchanged ==
    (/\ ~ci
     /\ ~force
     /\ SnapshotBuilt
     /\ previousHashes.kind = "obj"
     /\ previousHashes.map = fileHashes
     /\ ChunkSizeParam(chunkCfg) >= 1)
    => /\ ~aborted
       /\ decision # "changed"
       /\ pc # "Building" => (detector # "idle")
       /\ detector = "done" => decision = "unchanged"

C1_Witness ==
    /\ ~force
    /\ previousHashes.kind = "obj"
    /\ previousHashes.map = fileHashes
    /\ Len(fileKeys) = 2
    /\ Len(tasks) = 2
    /\ detector = "done"
    /\ decision = "unchanged"

\* C2: without force and with a baseline present, a current snapshot that
\* differs from the baseline in at least one entry is reported changed, for
\* every chunk size (1, smaller than the key count, larger than the key count).
C2_DifferenceDetected ==
    (/\ ~ci
     /\ ~force
     /\ previousHashes.kind = "obj"
     /\ previousHashes.map # fileHashes
     /\ ChunkSizeParam(chunkCfg) >= 1
     /\ decision # "none")
    => /\ decision = "changed"
       /\ detector = "done" => aborted

C2_Witness ==
    /\ ~force
    /\ previousHashes.kind = "obj"
    /\ DOMAIN previousHashes.map = DOMAIN fileHashes
    /\ Cardinality({f \in DOMAIN fileHashes : fileHashes[f] # previousHashes.map[f]}) = 1
    /\ Len(fileKeys) = 2
    /\ ChunkSizeParam(chunkCfg) < Len(fileKeys)
    /\ detector = "done"
    /\ aborted
    /\ decision = "changed"

\* C3: when the baseline is present and its number of keys differs from the
\* current snapshot's, the decision is "changed" without any chunk comparison,
\* the command is spawned once, and a run that completes has rewritten the
\* store with the current snapshot.
C3_CountMismatchChanged ==
    (/\ ~ci
     /\ previousHashes.kind = "obj"
     /\ KeyCount(fileHashes) # KeyCount(previousHashes.map)
     /\ decision # "none")
    => /\ decision = "changed"
       /\ detector = "idle"
       /\ spawnCount = 1
       /\ RunCompleted => (store = MappingStore(fileHashes) /\ writeCount = 1)

C3_Witness ==
    /\ ~force
    /\ previousHashes.kind = "obj"
    /\ KeyCount(fileHashes) < KeyCount(previousHashes.map)
    /\ \A f \in DOMAIN fileHashes : Lookup(previousHashes.map, f) = <<fileHashes[f]>>
    /\ fileHashes # EmptyMap
    /\ RunCompleted
    /\ store = MappingStore(fileHashes)
    /\ store # store0

\* C4: when no hash file exists, the decision is "changed" for every current
\* snapshot, the empty one included: the command is spawned once and a run
\* that completes leaves the store holding exactly the current snapshot.
C4_AbsentBaselineChanged ==
    (/\ ~ci
     /\ store0 = MissingStore
     /\ decision # "none")
    => /\ decision = "changed"
       /\ detector = "idle"
       /\ spawnCount = 1
       /\ RunCompleted => (store = MappingStore(fileHashes) /\ fileHashes = tracked)

C4_Witness ==
    /\ ~force
    /\ store0 = MissingStore
    /\ tracked = EmptyMap
    /\ RunCompleted
    /\ decision = "changed"
    /\ spawnCount = 1
    /\ store = MappingStore(EmptyMap)

\* C5: with force set, a run that reaches the decision decides "changed"
\* whatever the baseline is (also when it equals the current snapshot): the
\* command is spawned once and a run that completes has written a new hash file.
C5_ForceChanged ==
    (/\ force
     /\ ~ci
     /\ SnapshotBuilt
     /\ pc # "Building")
    => /\ decision = "changed"
       /\ detector = "idle"
       /\ spawnCount = 1
       /\ RunCompleted => (store = MappingStore(fileHashes) /\ writeCount = 1)

C5_Witness ==
    /\ force
    /\ store0 = MappingStore(tracked)
    /\ tracked # EmptyMap
    /\ previousHashes = ObjHashes(fileHashes)
    /\ RunCompleted
    /\ decision = "changed"
    /\ spawnCount = 1
    /\ writeCount = 1

\* C6: when the decision is "unchanged" the run has ended successfully: no
\* command was spawned, the store was not written and equals the store the
\* run started with, and the process exits with code 0.
C6_UnchangedNoEffect ==
    decision = "unchanged"
    => /\ spawnCount = 0
       /\ cmd = "none"
       /\ writeCount = 0
       /\ store = store0
       /\ RunCompleted
       /\ pc = "Exited" => exitCode = 0

C6_Witness ==
    /\ decision = "unchanged"
    /\ pc = "Exited"
    /\ tracked # EmptyMap
    /\ store = MappingStore(tracked)

\* C7: when a run on the "changed" branch has completed, the command was
\* spawned exactly once and loading the store gives the current snapshot
\* computed in that run, whatever the command's exit code.
C7_SnapshotPersisted ==
    (decision = "changed" /\ RunCompleted)
    => /\ spawnCount = 1
       /\ ParseStore(store, TRUE) = ObjHashes(fileHashes)
       /\ fileHashes = tracked

C7_Witness ==
    /\ decision = "changed"
    /\ RunCompleted
    /\ cmd = "closed"
    /\ code = MaxExitCode
    /\ store0.kind = "mapping"
    /\ store0 # store
    /\ ParseStore(store, TRUE) = ObjHashes(tracked)
    /\ tracked # EmptyMap

\* C8: on the "changed" branch the store is written only after the command
\* has terminated, and the run ends (process.exit with the command's code, or
\* run() resolving) only in the step that completes the store write.
C8_ChangedBranchOrder ==
    [][/\ (writeCount' # writeCount \/ store' # store)
            => (CommandTerminated /\ decision = "changed" /\ pc = "Writing")
       /\ (decision = "changed" /\ ~RunCompleted /\ RunCompleted')
            => /\ CommandTerminated
               /\ writeCount' = writeCount + 1
               /\ store' = MappingStore(fileHashes)
               /\ pc' = "Exited" => exitCode' = code
      ]_vars

C8_Witness ==
    /\ decision = "changed"
    /\ pc = "Exited"
    /\ error = "none"
    /\ cmd = "closed"
    /\ code = 1
    /\ exitCode = 1
    /\ writeCount = 1
    /\ store # store0

\* C9: when the process has exited after the command terminated (changed
\* branch or CI bypass, no fatal error), its exit code is the command's exit
\* code; when it has exited after a fatal error that occurred before a command
\* could run (config, glob, file read, spawn), its exit code is not 0.
C9_ExitCode ==
    pc = "Exited"
    => /\ (error = "none" /\ CommandTerminated) => exitCode = code
       /\ (error = "none" /\ cmd = "closed") => (spawnCount = 1 /\ (ci \/ decision = "changed"))
       /\ error \in {"config", "glob", "read", "spawn"} => exitCode # 0

C9_Witness ==
    /\ pc = "Exited"
    /\ ~ci
    /\ error = "none"
    /\ decision = "changed"
    /\ cmd = "closed"
    /\ code = MaxExitCode
    /\ exitCode = MaxExitCode

\* C10: in CI mode the store is neither read nor written, no snapshot is
\* computed and no decision is taken; once the config is loaded the command
\* has been spawned exactly once, and the process exits with its exit code.
C10_CiBypass ==
    ci
    => /\ readCount = 0
       /\ writeCount = 0
       /\ store = store0
       /\ previousHashes = PendingHashes
       /\ ~globbed
       /\ fileKeys = <<>>
       /\ fileHashes = EmptyMap
       /\ detector = "idle"
       /\ decision = "none"
       /\ (pc # "Init" /\ error # "config") => spawnCount = 1
       /\ error = "config" => spawnCount = 0
       /\ (pc = "Exited" /\ error = "none") => (CommandTerminated /\ exitCode = code)

C10_Witness ==
    /\ ci
    /\ ~force
    /\ tracked # EmptyMap
    /\ store0 = MappingStore(tracked)
    /\ pc = "Exited"
    /\ cmd = "closed"
    /\ spawnCount = 1
    /\ code = 1
    /\ exitCode = 1
    /\ store = store0

\* the second invocation found a baseline: the hash file the first invocation
\* left could be read
BaselineRead == previousHashes.kind # "null"

C12_RetryWitness ==
    /\ run = 2
    /\ prev = "failed"
    /\ spawnCount = 1
    /\ cmd = "closed"
    /\ filesChanged # force

\* C13 (as claimed): loading the hash file never aborts the run, and a hash
\* file that is missing, unreadable or holds anything but a path-to-digest
\* mapping -- valid JSON of another shape included -- gives the absent
\* baseline (null), so that the run takes the changed branch.
C13_OtherContentIsAbsentBaseline ==
    (~ci /\ store0.kind # "mapping") =>
        /\ error \notin {"store"}
        /\ (previousHashes.kind # "pending" => previousHashes = NullHashes)
        /\ decision # "unchanged"

\* the hash file holds the JSON array [], no file is tracked: readHashFile
\* returns the array, the key counts are both 0 and the command is skipped
C13_ArrayBaselineSkipped ==
    /\ store0 = ArrayStore
    /\ ~ci
    /\ ~force
    /\ tracked = EmptyMap
    /\ previousHashes = ObjHashes(EmptyMap)
    /\ decision = "unchanged"
    /\ spawnCount = 0
    /\ RunCompleted

\* C14: when the command cannot be spawned, run() rejects with the spawn
\* error: the hash file is never written and stays what it was before the
\* run, and the CLI exits with its failure code.
C14_SpawnErrorNoWrite ==
    cmd = "errored" =>
        /\ error = "spawn"
        /\ pc \in {"Rejected", "Exited"}
        /\ writeCount = 0
        /\ store = store0
        /\ (pc = "Exited" => exitCode = CLI_FAILURE_CODE)

\* a changed run outside CI whose command could not be spawned
C14_Witness ==
    /\ cmd = "errored"
    /\ ~ci
    /\ decision = "changed"
    /\ fileHashes # EmptyMap
    /\ store0 # MappingStore(fileHashes)
    /\ pc = "Exited"
    /\ store = store0

\* C15: when the hash of one tracked file cannot be computed, run() rejects:
\* no decision is taken, the command is never spawned and the hash file is
\* not written, whichever hashes were already computed and with force or not.
C15_HashFailureAborts ==
    error = "read" =>
        /\ pc \in {"Rejected", "Exited"}
        /\ decision = "none"
        /\ cmd = "none"
        /\ spawnCount = 0
        /\ writeCount = 0
        /\ store = store0
        /\ (pc = "Exited" => exitCode = CLI_FAILURE_CODE)

\* one file was hashed, the other failed, force is set
C15_Witness ==
    /\ error = "read"
    /\ force
    /\ fileHashes # EmptyMap
    /\ DOMAIN fileHashes # DOMAIN tracked
    /\ store # MappingStore(fileHashes)
    /\ pc = "Exited"

\* C16: when the loader resolves no config or an empty one, run() rejects
\* before any snapshot work: the hash file is not read, nothing is globbed or
\* hashed, the command is not spawned and the hash file is not written, with
\* CI set or not.
C16_ConfigErrorFirst ==
    error = "config" =>
        /\ pc \in {"Rejected", "Exited"}
        /\ readCount = 0
        /\ previousHashes = PendingHashes
        /\ ~globbed
        /\ fileHashes = EmptyMap
        /\ decision = "none"
        /\ cmd = "none"
        /\ spawnCount = 0
        /\ writeCount = 0
        /\ store = store0
        /\ (pc = "Exited" => exitCode = CLI_FAILURE_CODE)

\* the config was not found in CI mode and the CLI exited with 1
C16_Witness ==
    /\ error = "config"
    /\ ci
    /\ tracked # EmptyMap
    /\ pc = "Exited"
    /\ exitCode = CLI_FAILURE_CODE

\* C17: runCommand resolves with the code of the close event when there is
\* one and with 0 when there is none (the child was killed by a signal); a
\* run whose command was killed goes on as after exit code 0: outside CI the
\* hash file is written with the current hashes, and the process exits with 0.
C17_SignalIsZero ==
    /\ cmd = "closed" => childCode # <<>> /\ code = childCode[1]
    /\ cmd = "signalled" =>
           /\ childCode = <<>>
           /\ code = 0
           /\ pc \in {"Writing", "Rejected", "Resolved", "Exited"}
           /\ (RunCompleted /\ ~ci => writeCount = 1 /\ store = MappingStore(fileHashes))
           /\ (RunCompleted /\ pc = "Exited" => exitCode = 0)

\* the command was killed, the hash file was rewritten, the CLI exited with 0
C17_Witness ==
    /\ cmd = "signalled"
    /\ ~ci
    /\ pc = "Exited"
    /\ error = "none"
    /\ store = MappingStore(tracked)
    /\ store # store0
    /\ exitCode = 0

\* C18 (as claimed): with IS_TEST set, the promise of run() resolves with the
\* exit code of the command on the changed and CI branches.
C18_ReturnsExitCode ==
    (isTest /\ pc = "Resolved" /\ CommandTerminated) => returned = NumberValue(code)

\* C18 (amended): with IS_TEST set, process.exit is never called and the
\* promise of run() resolves with undefined on every branch; the code of the
\* command is not in the value run() returns.
C18_ResolvesUndefined ==
    /\ returned.kind # "number"
    /\ isTest => pc # "Exited" /\ exitCode = 0
    /\ (isTest /\ pc = "Resolved") => returned = UndefinedValue

\* with IS_TEST set the command exited with 2 and run() resolved with undefined
C18_Witness ==
    /\ isTest
    /\ pc = "Resolved"
    /\ cmd = "closed"
    /\ code = 2
    /\ returned = UndefinedValue

\* C19: in one run the hash file is read at most once and written at most
\* once, on every path.
C19_AtMostOneReadOneWrite ==
    /\ readCount <= 1
    /\ writeCount <= 1

\* a run that read the hash file and wrote it
C19_Witness ==
    /\ readCount = 1
    /\ writeCount = 1
    /\ pc = "Exited"
    /\ error = "none"

\* C20 (as claimed): hashRunner() of src/index.ts, given a hash file whose
\* mapping was read and has another number of entries than the current
\* hashes (a file was added or removed), never skips: a completed run has
\* run execOnChange exactly once and rewritten the hash file with the
\* current hashes.
C20_LengthMismatchRuns ==
    (/\ legacy
     /\ ~ci
     /\ store0.kind = "mapping"
     /\ previousHashes = ObjHashes(store0.map)
     /\ KeyCount(store0.map) # KeyCount(tracked)) =>
        /\ decision # "unchanged"
        /\ RunCompleted => /\ spawnCount = 1
                           /\ writeCount = 1
                           /\ store = MappingStore(tracked)

\* a tracked file was removed and the remaining ones are as stored:
\* hashRunner() returns without running execOnChange, the hash file keeps the
\* entry of the removed file
C20_RemovedFileSkipped ==
    /\ legacy
    /\ ~ci
    /\ store0.kind = "mapping"
    /\ tracked # EmptyMap
    /\ KeyCount(store0.map) > KeyCount(tracked)
    /\ decision = "unchanged"
    /\ RunCompleted
    /\ spawnCount = 0
    /\ store = store0

\* hashRunner() with more current hashes than stored ones (a file was
\* added) never skips: the added key has no stored digest
C20_AddedFileRuns ==
    (/\ legacy
     /\ ~ci
     /\ previousHashes.kind = "obj"
     /\ KeyCount(previousHashes.map) < KeyCount(tracked)) =>
        /\ decision # "unchanged"
        /\ (RunCompleted => spawnCount = 1 /\ store = MappingStore(tracked))

\* C21 (as claimed): hashRunner() of src/index.ts, when the hash file does
\* not exist, never skips, whatever the current files are (none included): a
\* completed run has run execOnChange exactly once and created the hash file
\* with the current hashes.
C21_MissingHashFileRuns ==
    (legacy /\ ~ci /\ store0 = MissingStore) =>
        /\ decision # "unchanged"
        /\ RunCompleted => /\ spawnCount = 1
                           /\ writeCount = 1
                           /\ store = MappingStore(tracked)

\* no hash file and no tracked file: readHashFile returns {}, nothing is
\* compared, hashRunner() returns without running execOnChange and the hash
\* file is not created
C21_EmptySetSkipped ==
    /\ legacy
    /\ ~ci
    /\ store0 = MissingStore
    /\ tracked = EmptyMap
    /\ previousHashes = ObjHashes(EmptyMap)
    /\ decision = "unchanged"
    /\ RunCompleted
    /\ spawnCount = 0
    /\ store = MissingStore

\* hashRunner() without a hash file and with at least one current file runs
\* execOnChange once and creates the hash file
C21_NonEmptySetRuns ==
    (legacy /\ ~ci /\ store0 = MissingStore /\ tracked # EmptyMap) =>
        /\ decision # "unchanged"
        /\ (RunCompleted => spawnCount = 1 /\ store = MappingStore(tracked))

\* the key checkChunk call k is at
KeyAt(k) == fileKeys[tasks[k].i + 1]

\* checkChunk call k is at a key whose hashes differ
AtMismatch(k) ==
    /\ tasks[k].i < tasks[k].end
    /\ HashMismatch(fileHashes, previousHashes.map, KeyAt(k))

\* C22: checkChangesInChunks returns only when every checkChunk call has
\* returned (at the end of its chunk, on a mismatch or on the aborted signal),
\* and what it returns is the state of the signal then: the decision is
\* "changed" exactly when the signal is aborted.  While a call is still
\* running nothing is decided.
C22_ReportAfterAllTasks ==
    /\ detector = "running" => decision = "none" /\ pc = "Detecting"
    /\ detector = "done" =>
           /\ \A k \in DOMAIN tasks : tasks[k].st = "done" /\ tasks[k].exit # "none"
           /\ decision = IF aborted THEN "changed" ELSE "unchanged"

\* the detector returned true after one call found a mismatch, one returned
\* on the aborted signal and one scanned its chunk to the end
C22_Witness ==
    /\ detector = "done"
    /\ decision = "changed"
    /\ aborted
    /\ \E k \in DOMAIN tasks : tasks[k].exit = "found"
    /\ \E k \in DOMAIN tasks : tasks[k].exit = "aborted"
    /\ \E k \in DOMAIN tasks : tasks[k].exit = "end"

\* C23: the abort signal starts unaborted, is aborted only by a checkChunk
\* call that compared a key whose hashes differ, stays aborted when abort() is
\* called again, and is never unaborted.
C23_SignalMonotone ==
    [][/\ aborted => aborted'
       /\ (~aborted /\ aborted') =>
              \E k \in DOMAIN tasks :
                 /\ tasks[k].st = "compare"
                 /\ AtMismatch(k)
                 /\ tasks'[k].exit = "found"
       /\ detector = "idle" => ~aborted]_vars

\* a call aborted the signal, a later call found it aborted, and it is
\* still aborted when checkChangesInChunks returns
C23_Witness ==
    /\ detector = "done"
    /\ aborted
    /\ \E k, l \in DOMAIN tasks :
          /\ k < l
          /\ tasks[k].exit = "found"
          /\ tasks[l].exit = "aborted"

\* two checkChunk calls each called abort(): reached when the steps of two
\* calls interleave
C23_SecondSignal ==
    /\ aborted
    /\ \E k, l \in DOMAIN tasks :
          /\ k # l
          /\ tasks[k].exit = "found"
          /\ tasks[l].exit = "found"

\* C24: every checkChunk call tests the signal before each key: a call at the
\* test with the signal aborted returns there and leaves its remaining keys
\* uncompared; a key is compared only after a test that found the signal
\* unaborted; a call that is comparing a key when the signal is aborted
\* finishes that comparison (it moves to the next test, or returns at the end
\* of its chunk or on its own mismatch) and is never ended in between.  So
\* after the signal is aborted a call compares at most the key it had begun.
C24_CooperativeCancellation ==
    [][\A k \in DOMAIN tasks \cap DOMAIN tasks' :
          LET t == tasks[k]
              u == tasks'[k]
          IN /\ (t.st = "check" /\ aborted /\ u # t) =>
                    u = [t EXCEPT !.st = "done", !.exit = "aborted"]
             /\ (u.st = "compare" /\ t.st # "compare") =>
                    t.st = "check" /\ ~aborted /\ u.i = t.i
             /\ (t.st = "compare" /\ u # t) =>
                    /\ u.exit # "aborted"
                    /\ u.st \in {"check", "done"}
                    /\ (u.st = "check" => u.i = t.i + 1)
             /\ u.i # t.i => t.st = "compare" /\ u.i = t.i + 1
             /\ t.st = "done" => u = t]_vars

\* a call returned on the aborted signal with two keys left uncompared
C24_Witness ==
    /\ detector = "done"
    /\ aborted
    /\ \E k \in DOMAIN tasks :
          /\ tasks[k].exit = "aborted"
          /\ tasks[k].end - tasks[k].i >= 2

\* a call finished the comparison it had begun after the signal was aborted
\* and returned at its next test: reached when the steps of two calls interleave
C24_LateComparison ==
    /\ aborted
    /\ \E k \in DOMAIN tasks :
          /\ tasks[k].exit = "aborted"
          /\ tasks[k].i > tasks[k].start

\* C25: a checkChunk call that finds a mismatch at index i aborts the signal
\* and returns: every key it compared before i matched, it stays at i, and no
\* call ever moves past a key whose hashes differ.
C25_StopAtMismatch ==
    \A k \in DOMAIN tasks :
       /\ \A j \in tasks[k].start .. (tasks[k].i - 1) :
             ~HashMismatch(fileHashes, previousHashes.map, fileKeys[j + 1])
       /\ tasks[k].exit = "found" =>
             /\ aborted
             /\ tasks[k].st = "done"
             /\ AtMismatch(k)

\* a call returned on a mismatch with later keys of its chunk left, one of
\* them a mismatch as well, and the detector returned
C25_Witness ==
    /\ detector = "done"
    /\ \E k \in DOMAIN tasks :
          /\ tasks[k].exit = "found"
          /\ tasks[k].i + 2 < tasks[k].end
          /\ HashMismatch(fileHashes, previousHashes.map, fileKeys[tasks[k].i + 3])

\* the chunk of checkChunk call k holds a key whose hashes differ
ChunkHasMismatch(k) ==
    \E j \in tasks[k].start .. (tasks[k].end - 1) :
       HashMismatch(fileHashes, previousHashes.map, fileKeys[j + 1])

\* some current key has another hash, or none, in the previous hashes
SomeMismatch ==
    \E f \in DOMAIN fileHashes : HashMismatch(fileHashes, previousHashes.map, f)

\* C26: what checkChangesInChunks returns depends only on the current and
\* previous hashes: true exactly when some current key mismatches, for every
\* chunk size and every interleaving of the checkChunk calls, whichever call
\* aborts the signal first.
C26_ResultDeterministic ==
    detector = "done" =>
        /\ aborted = SomeMismatch
        /\ decision = IF SomeMismatch THEN "changed" ELSE "unchanged"

\* two chunks each hold a mismatch and the detector returned true
C26_Witness ==
    /\ detector = "done"
    /\ decision = "changed"
    /\ \E k, l \in DOMAIN tasks :
          /\ k # l
          /\ ChunkHasMismatch(k)
          /\ ChunkHasMismatch(l)

\* of two chunks that each hold a mismatch the later one aborted the signal
\* first: reached when the steps of two calls interleave
C26_LaterChunkFirst ==
    /\ detector = "done"
    /\ decision = "changed"
    /\ \E k, l \in DOMAIN tasks :
          /\ k < l
          /\ ChunkHasMismatch(k)
          /\ tasks[k].exit = "aborted"
          /\ tasks[l].exit = "found"

\* C27: for n current keys and chunk size c >= 1 there are ceil(n/c)
\* checkChunk calls; call k (from 0) has the index range [k*c, min((k+1)*c, n)),
\* which is not empty; every key index 0..n-1 lies in exactly one range; every
\* call but the last has c keys; for n = 0 there is no call and the result is
\* false.
C27_ChunkPartition ==
    detector # "idle" =>
        LET n == Len(fileKeys)
            c == ChunkSizeParam(chunkCfg)
        IN /\ c >= 1
           /\ Len(tasks) * c >= n
           /\ (Len(tasks) - 1) * c < n
           /\ \A k \in DOMAIN tasks :
                 /\ tasks[k].start = (k - 1) * c
                 /\ tasks[k].end = Min(k * c, n)
                 /\ tasks[k].start < tasks[k].end
                 /\ k < Len(tasks) => tasks[k].end - tasks[k].start = c
                 /\ tasks[k].i \in tasks[k].start .. tasks[k].end
           /\ \A j \in 0 .. (n - 1) :
                 Cardinality({k \in DOMAIN tasks :
                                 tasks[k].start <= j /\ j < tasks[k].end}) = 1
           /\ n = 0 => /\ tasks = <<>>
                       /\ ~aborted
                       /\ (detector = "done" => decision = "unchanged")

\* three keys in chunks of two: two calls, the last one with a single key
C27_Witness ==
    /\ detector = "running"
    /\ Len(fileKeys) = 3
    /\ ChunkSizeParam(chunkCfg) = 2
    /\ Len(tasks) = 2
    /\ tasks[1].end - tasks[1].start = 2
    /\ tasks[2].end - tasks[2].start = 1

\* no current key and an empty mapping as baseline: no call, result false
C27_NoKeys ==
    /\ detector = "done"
    /\ Len(fileKeys) = 0
    /\ tasks = <<>>
    /\ decision = "unchanged"

\* C28: when force is set, or there is no baseline, or the numbers of keys
\* differ, the || chain of run() is true before checkChangesInChunks is
\* reached: no checkChunk call is made, no hash is compared, and run() goes
\* straight to the command.
C28_ShortCircuitNoComparison ==
    (\/ force
     \/ previousHashes = NullHashes
     \/ KeyCount(tracked) # KeyCount(previousHashes.map)) =>
        /\ detector = "idle"
        /\ tasks = <<>>
        /\ ~aborted
        /\ pc \in {"Building", "Running"}
        /\ (pc = "Running" => decision = "changed" /\ spawnCount = 1)

\* force with a baseline equal to the non-empty current hashes: the command
\* was started and nothing was compared
C28_Witness ==
    /\ force
    /\ tracked # EmptyMap
    /\ previousHashes = ObjHashes(tracked)
    /\ pc = "Running"
    /\ decision = "changed"
    /\ detector = "idle"

\* C29: a current key without previous hash is a mismatch (its previous hash
\* is undefined): with as many previous keys as current ones but other key
\* sets (a file was renamed), run() never takes the unchanged branch, and
\* checkChangesInChunks, when it is called, returns true.
C29_RenamedKeyChanged ==
    (/\ previousHashes.kind = "obj"
     /\ KeyCount(previousHashes.map) = KeyCount(tracked)
     /\ DOMAIN previousHashes.map # DOMAIN tracked) =>
        /\ decision # "unchanged"
        /\ (detector = "done" => aborted /\ decision = "changed")

\* without force, file 2 was stored as file 3 with the same hash and file 1
\* is as stored: the detector returned true
C29_Witness ==
    /\ ~force
    /\ DOMAIN tracked = {1, 2}
    /\ previousHashes.kind = "obj"
    /\ DOMAIN previousHashes.map = {1, 3}
    /\ previousHashes.map[1] = tracked[1]
    /\ previousHashes.map[3] = tracked[2]
    /\ detector = "done"
    /\ decision = "changed"

\* C30 (as claimed): with no force and no current file, a completed run whose
\* hash file held the empty mapping (and was read) reports no change -- no
\* command, no write -- while one whose hash file was missing reports a
\* change and runs the command.
C30_AbsentIsNotEmpty ==
    (~ci /\ ~force /\ tracked = EmptyMap /\ RunCompleted) =>
        /\ (store0 = MappingStore(EmptyMap) /\ previousHashes.kind = "obj") =>
              /\ decision = "unchanged"
              /\ spawnCount = 0
              /\ writeCount = 0
        /\ store0 = MissingStore =>
              /\ decision = "changed"
              /\ spawnCount = 1

\* hashRunner() of src/index.ts found no hash file and no current file and
\* ended as it does on an empty hash file: nothing run, nothing written
C30_MissingStoreUnchanged ==
    /\ legacy
    /\ ~ci
    /\ ~force
    /\ store0 = MissingStore
    /\ readCount = 1
    /\ tracked = EmptyMap
    /\ pc = "Exited"
    /\ error = "none"
    /\ decision = "unchanged"
    /\ writeCount = 0
    /\ exitCode = 0

\* HashRunner.run with no hash file, no force and no current file: the
\* command was run and the hash file created with the empty mapping
C30_ClassMissingStoreChanged ==
    /\ ~legacy
    /\ ~ci
    /\ ~force
    /\ store0 = MissingStore
    /\ tracked = EmptyMap
    /\ RunCompleted
    /\ decision = "changed"
    /\ store = MappingStore(EmptyMap)


\* ------------------------------------------------- the configured chunk size

\* checkChangesInChunks was called: it returned, is waiting for its checkChunk
\* calls, or threw
ReachedComparison == detector # "idle" \/ error = "range"

\* C31: in every run that reaches the chunked comparison the chunk size the
\* detector uses is an integer >= 1: the configured
\* parallelizeComparisonsChunkSize, or 100 when the config sets none.
C31_ChunkSizePositive ==
    ReachedComparison =>
        /\ ChunkSizeParam(chunkCfg) >= 1
        /\ chunkCfg = <<>> => ChunkSizeParam(chunkCfg) = COMPARISON_CHUNK_SIZE
        /\ chunkCfg # <<>> => ChunkSizeParam(chunkCfg) = chunkCfg[1]

\* a configured chunk size below 0 (or 0 with no current key): no checkChunk
\* call was made, and a current key whose hash differs went unnoticed
C31_MissedChange ==
    /\ ChunkSizeParam(chunkCfg) < 1
    /\ detector = "done"
    /\ tasks = <<>>
    /\ SomeMismatch
    /\ decision = "unchanged"
    /\ spawnCount = 0
    /\ pc = "Resolved"

\* a configured chunk size of 0 with current keys: Array.from threw, run()
\* rejected and the CLI exited with 1 without comparing a key
C31_RangeError ==
    /\ ChunkSizeParam(chunkCfg) = 0
    /\ Len(fileKeys) > 0
    /\ error = "range"
    /\ detector = "idle"
    /\ pc = "Exited"
    /\ exitCode = CLI_FAILURE_CODE

\* with a chunk size >= 1 the comparison never throws and, once it returned,
\* has noticed every mismatch
C31_PositiveSizesSound ==
    ChunkSizeParam(chunkCfg) >= 1 =>
        /\ error # "range"
        /\ detector = "done" => (SomeMismatch <=> decision = "changed")


\* ------------------------------------------------------- the order of a run

\* The place of a run in Init, ConfigLoaded, SnapshotBuilt, Decided, Skipped
\* or Executed, Done.  run() decides and starts the command (or returns) in one
\* synchronous stretch, so Decided (3) is passed within a step: 0 is before
\* loadConfig resolved, 1 while Promise.all is pending, 2 from its resolution
\* to the end of checkChangesInChunks, 4 while the command runs or the hash
\* file is written, 5 when run() has settled.
Phase ==
    CASE pc = "Init" -> 0
      [] pc = "Building" -> (IF SnapshotBuilt THEN 2 ELSE 1)
      [] pc = "Detecting" -> 2
      [] pc \in {"Running", "Writing"} -> 4
      [] pc \in {"Resolved", "Rejected", "Exited"} -> 5

\* C32: a run outside CI goes through Init, ConfigLoaded, SnapshotBuilt,
\* Decided, Skipped or Executed, Done in this order: it never goes back, it
\* leaves Init only by loading the config (or failing), it decides only when
\* readHashFile and getHashedFiles have both completed, and the command is
\* spawned only then, once, in the step that decides "changed".
C32_StateOrder ==
    [][~ci =>
        /\ Phase' >= Phase
        /\ Phase = 0 => Phase' \in {0, 1, 5}
        /\ Phase = 1 => Phase' \in {1, 2, 5}
        /\ decision' # decision =>
              /\ decision = "none"
              /\ Phase = 2
              /\ readCount = 1
        /\ spawnCount' # spawnCount =>
              /\ spawnCount = 0
              /\ spawnCount' = 1
              /\ Phase = 2
              /\ readCount = 1
              /\ decision' = "changed"
              /\ Phase' = 4
        /\ (Phase' = 5 /\ Phase < 5 /\ error' = "none") =>
              \/ Phase = 2 /\ decision' = "unchanged" /\ spawnCount = 0
              \/ Phase = 4 /\ decision = "changed" /\ CommandTerminated /\ writeCount' = 1
      ]_vars

\* a run outside CI went through every state: config loaded, both promises
\* resolved, the detector ran and reported a change, the command ran once
\* and the hash file was written
C32_Witness ==
    /\ ~ci
    /\ ~legacy
    /\ pc = "Exited"
    /\ error = "none"
    /\ SnapshotBuilt
    /\ detector = "done"
    /\ decision = "changed"
    /\ spawnCount = 1
    /\ CommandTerminated
    /\ writeCount = 1


\* ------------------------------------------------------------- termination

\* every checkChunk call has returned
AllTasksDone == \A k \in DOMAIN tasks : tasks[k].st = "done" /\ tasks[k].exit # "none"

\* C33: the detector terminates.  For all current hashes, previous hashes and
\* chunk sizes >= 1, when every checkChunk call that can take a step is
\* eventually run, every call returns (at the end of its chunk, on a mismatch
\* or on the aborted signal) and checkChangesInChunks returns a boolean.
C33_DetectorTerminates ==
    (detector = "running") ~>
        (/\ detector = "done"
         /\ AllTasksDone
         /\ decision \in {"changed", "unchanged"}
         /\ decision = "changed" <=> aborted)

\* checkChangesInChunks returned after several checkChunk calls, one of which
\* went through its whole chunk and one of which stopped at a mismatch
C33_Witness ==
    /\ ChunkSizeParam(chunkCfg) >= 1
    /\ detector = "done"
    /\ Len(tasks) >= 2
    /\ AllTasksDone
    /\ \E k \in DOMAIN tasks : tasks[k].exit = "end" /\ tasks[k].end - tasks[k].start >= 2
    /\ \E k \in DOMAIN tasks : tasks[k].exit = "found"
    /\ decision = "changed"


\* the invocation is over: the process exited or, called from a test, the
\* promise of run() settled
RunSettled == pc = "Exited" \/ (isTest /\ pc \in {"Resolved", "Rejected"})

\* the child process was spawned and has emitted neither close nor error
CommandPending == cmd = "running"

\* C34: a run has no timeout.  While the spawned command has not terminated
\* the run is blocked in runCommand: the hash file is not written, run() does
\* not settle and the process does not exit, and the only steps are the
\* command's events.  When the steps of the run are scheduled fairly, the run
\* reaches a terminal state (skipped, done or fatal error) unless the command
\* never terminates.
C34_NoTimeout ==
    /\ [](CommandPending =>
            /\ pc = "Running"
            /\ ~RunSettled
            /\ writeCount = 0
            /\ store = store0
            /\ returned = PendingValue)
    /\ [][CommandPending => ~CommandPending']_vars
    /\ (<>[]CommandPending \/ <>RunSettled)

\* the command ran while the run waited, then terminated, and the run went
\* on: the hash file was written and the process exited
C34_Witness ==
    /\ ~ci
    /\ spawnCount = 1
    /\ CommandTerminated
    /\ writeCount = 1
    /\ store = MappingStore(fileHashes)
    /\ pc = "Exited"
    /\ error = "none"
    /\ exitCode = code

\* the run is waiting for a command that has not terminated
C34_Blocked ==
    /\ CommandPending
    /\ pc = "Running"
    /\ writeCount = 0


\* ------------------------------------------------------ the detector's frame

\* what readHashFile gave for the hash file the run started with
BaselineAtStart ==
    IF store0.kind = "mapping" THEN ObjHashes(store0.map) ELSE NullHashes

\* C35: checkChangesInChunks leaves both snapshots as they are.  While the
\* checkChunk calls run and after checkChangesInChunks returned, the current
\* hashes, their key list and the previous hashes are what they were when the
\* comparison started; a step of a checkChunk call changes nothing but the
\* call's own loop position and the abort signal, which only goes from
\* unaborted to aborted, and the hash file on disk is not touched.
C35_SnapshotsReadOnly ==
    /\ [](/\ fileHashes = tracked
          /\ fileKeys = KeySeq(KeyCount(tracked))
          /\ previousHashes = BaselineAtStart
          /\ store = store0)
    /\ [][/\ UNCHANGED <<fileHashes, fileKeys, previousHashes, store>>
          /\ (pc = "Detecting" /\ pc' = "Detecting") =>
                /\ UNCHANGED <<store, envVars, pc, chunkCfg, buildVars, detector, decision,
                               cmdVars, readCount, writeCount, error, exitCode, returned>>
                /\ tasks' # tasks
                /\ aborted => aborted'
      ]_vars

\* the comparison is over, a checkChunk call aborted the signal, and the
\* previous hashes still hold the hash that differs
C35_Witness ==
    /\ detector = "done"
    /\ aborted
    /\ Len(tasks) >= 2
    /\ previousHashes.kind = "obj"
    /\ previousHashes = BaselineAtStart
    /\ fileHashes = tracked
    /\ \E f \in DOMAIN fileHashes \cap DOMAIN previousHashes.map :
          previousHashes.map[f] # fileHashes[f]


\* ------------------------------------------------------ a failed store write

\* C36: when writeHashFile fails (on the changed branch, after the command
\* terminated), the run ends in a fatal error: run() rejects and never
\* resolves, the CLI exits with 1 whatever the command's exit code was, the
\* command has been executed once and is not executed again, and the write
\* is not tried again.
C36_WriteFailureFatal ==
    error = "write" =>
        /\ ~ci
        /\ decision = "changed"
        /\ CommandTerminated
        /\ spawnCount = 1
        /\ writeCount = 1
        /\ pc \in {"Rejected", "Exited"}
        /\ returned = PendingValue
        /\ isTest => pc = "Rejected"
        /\ pc = "Exited" => exitCode = CLI_FAILURE_CODE

\* the command exited with 0, the write of the hash file failed, and the CLI
\* exited with 1
C36_Witness ==
    /\ error = "write"
    /\ cmd = "closed"
    /\ childCode = <<0>>
    /\ code = 0
    /\ spawnCount = 1
    /\ pc = "Exited"
    /\ exitCode = CLI_FAILURE_CODE

====
